---- MODULE Spec2Model ----
(***************************************************************************)
(* Model of bridge_claude_codex_apply.py: the Claude <-> Codex ping-pong   *)
(* loop (main), the change-application engine (safe_relpath,               *)
(* apply_change, apply_changes) and the parser of the collaborators'       *)
(* replies (parse_first_json_block).                                       *)
(*                                                                         *)
(* A Python str is a sequence of one-character strings.  An absolute,      *)
(* resolved filesystem path is the sequence of its component names (<< >>  *)
(* is "/").  A path string given in a change is [abs, segs]: whether it    *)
(* starts with "/", and its segments, among them "." and "..".             *)
(***************************************************************************)
EXTENDS Integers, Sequences, FiniteSets, TLC

\* ------------------------------------------------------------------ bounds
MaxBatch == 2       \* longest list of changes given to apply_changes alone
MaxText == 4        \* longest reply given to parse_first_json_block alone, in tokens

\* --------------------------------------------------------------- constants
TURN_LIMIT == 5

WORKSPACE_ROOT == <<"w">>

APPLY_IMMEDIATELY_ON_DOUBLE_5 == TRUE

\* ------------------------------------------------------------- filesystem
\* A filesystem is a function from the existing absolute paths to entries
\* [kind, data]: a directory, a file with its text, a symlink with its target.
Dir == [kind |-> "dir", data |-> << >>]

File(text) == [kind |-> "file", data |-> text]

Link(to) == [kind |-> "link", data |-> to]

Parent(p) == IF p = << >> THEN p ELSE SubSeq(p, 1, Len(p) - 1)

IsPrefix(a, b) == Len(a) <= Len(b) /\ SubSeq(b, 1, Len(a)) = a

Exists(fs, p) == p \in DOMAIN fs

IsDir(fs, p) == Exists(fs, p) /\ fs[p].kind = "dir"

\* WORKSPACE_ROOT / path_str: an absolute right operand replaces the left one.
Join(root, path) == IF path.abs THEN path.segs ELSE root \o path.segs

\* Path.resolve(): "." dropped, ".." climbs (never above "/"), a component that
\* is a symlink is replaced by its target; missing components are kept as named.
RECURSIVE Walk(_, _, _)
Walk(fs, cur, rest) ==
    IF rest = << >> THEN cur
    ELSE LET s == Head(rest)
             down == Append(cur, s)
             nxt == IF s = "." THEN cur
                    ELSE IF s = ".." THEN Parent(cur)
                    ELSE IF Exists(fs, down) /\ fs[down].kind = "link"
                         THEN fs[down].data
                         ELSE down
         IN Walk(fs, nxt, Tail(rest))

Resolve(fs, segs) == Walk(fs, << >>, segs)

\* A mutant of the guard: it normalises the path and never rejects it.
safe_relpath_unguarded(fs, path_str) ==
    [raised |-> FALSE, p |-> Resolve(fs, Join(WORKSPACE_ROOT, path_str))]

\* A mutant of the guard: the test is made on the joined path before resolve().
safe_relpath_lexical(fs, path_str) ==
    LET j == Join(WORKSPACE_ROOT, path_str)
    IN [raised |-> ~IsPrefix(WORKSPACE_ROOT, j), p |-> Resolve(fs, j)]

\* safe_relpath: raises ValueError unless WORKSPACE_ROOT is the resolved path
\* or one of its parents.
safe_relpath(fs, path_str) ==
    LET p == Resolve(fs, Join(WORKSPACE_ROOT, path_str))
    IN [raised |-> ~IsPrefix(WORKSPACE_ROOT, p), p |-> p]

\* Path.mkdir(parents=True, exist_ok=True) on directory d.
RECURSIVE mkdir(_, _)
mkdir(fs, d) ==
    IF Exists(fs, d)
    THEN [raised |-> ~IsDir(fs, d), fs |-> fs, created |-> {}]
    ELSE IF Exists(fs, Parent(d))
    THEN IF IsDir(fs, Parent(d))
         THEN [raised |-> FALSE, fs |-> (d :> Dir) @@ fs, created |-> {d}]
         ELSE [raised |-> TRUE, fs |-> fs, created |-> {}]
    ELSE LET r == mkdir(fs, Parent(d))
         IN IF r.raised THEN r
            ELSE [raised |-> FALSE, fs |-> (d :> Dir) @@ r.fs,
                  created |-> r.created \cup {d}]

\* A mutant of write_text: an existing file is opened for appending.
write_text_append(fs, target, text) ==
    IF IsDir(fs, target)
    THEN [raised |-> TRUE, fs |-> fs]
    ELSE IF Exists(fs, target)
    THEN [raised |-> FALSE, fs |-> (target :> File(fs[target].data \o text)) @@ fs]
    ELSE [raised |-> FALSE, fs |-> (target :> File(text)) @@ fs]

\* Path.write_text: opening a directory for writing raises IsADirectoryError.
write_text(fs, target, text) ==
    IF IsDir(fs, target)
    THEN [raised |-> TRUE, fs |-> fs]
    ELSE [raised |-> FALSE, fs |-> (target :> File(text)) @@ fs]

\* A mutant of the read: the previous text is never read.
read_text_empty(fs, target) ==
    IF IsDir(fs, target) THEN [raised |-> TRUE, text |-> << >>]
    ELSE [raised |-> FALSE, text |-> << >>]

\* target.read_text() if target.exists() else "": reading a directory raises.
read_text(fs, target) ==
    IF ~Exists(fs, target) THEN [raised |-> FALSE, text |-> << >>]
    ELSE IF IsDir(fs, target) THEN [raised |-> TRUE, text |-> << >>]
    ELSE [raised |-> FALSE, text |-> fs[target].data]

\* ------------------------------------------------------------------- text
\* find in text / text.find(find): the positions where find occurs.
Occurrences(find, text) ==
    {i \in 1..(Len(text) - Len(find) + 1) : SubSeq(text, i, i + Len(find) - 1) = find}

Min(S) == CHOOSE x \in S : \A y \in S : x <= y

\* A mutant of the literal patch: every occurrence is replaced, as by
\* str.replace without its count argument.
RECURSIVE str_replace_all(_, _, _)
str_replace_all(text, find, content) ==
    IF Occurrences(find, text) = {} THEN text
    ELSE LET i == Min(Occurrences(find, text))
         IN SubSeq(text, 1, i - 1) \o content
            \o str_replace_all(SubSeq(text, i + Len(find), Len(text)), find, content)

\* text.replace(find, content, 1): the leftmost occurrence alone.
str_replace_1(text, find, content) ==
    IF Occurrences(find, text) = {} THEN text
    ELSE LET i == Min(Occurrences(find, text))
         IN SubSeq(text, 1, i - 1) \o content \o SubSeq(text, i + Len(find), Len(text))

\* Patterns of the model are made of literal characters, "." (any character,
\* newline too under re.S), "*" after one of these (greedy repetition), and
\* "(", which alone never compiles; a "*" with nothing to repeat, or after
\* another "*", does not compile either (re.error).
regex_compiles(find) ==
    \A k \in 1..Len(find) :
        /\ find[k] # "("
        /\ find[k] = "*" => (k > 1 /\ find[k - 1] # "*")

atom_matches(atom, c) == atom = "." \/ atom = c

\* How many characters from position i on match the atom, one after another.
RECURSIVE run_length(_, _, _)
run_length(atom, text, i) ==
    IF i <= Len(text) /\ atom_matches(atom, text[i])
    THEN 1 + run_length(atom, text, i + 1)
    ELSE 0

\* The match of find[k..] at position i that the backtracking matcher finds
\* first, among those ending at least or later: the position after its last
\* character, or 0 when there is none.  star_end tries m repetitions of the
\* starred atom find[k], then fewer.
RECURSIVE regex_end(_, _, _, _, _)
RECURSIVE star_end(_, _, _, _, _, _)
regex_end(find, k, text, i, least) ==
    IF k > Len(find) THEN (IF i >= least THEN i ELSE 0)
    ELSE IF k < Len(find) /\ find[k + 1] = "*"
    THEN star_end(find, k, text, i, least, run_length(find[k], text, i))
    ELSE IF i <= Len(text) /\ atom_matches(find[k], text[i])
    THEN regex_end(find, k + 1, text, i + 1, least)
    ELSE 0

star_end(find, k, text, i, least, m) ==
    IF regex_end(find, k + 2, text, i + m, least) # 0
    THEN regex_end(find, k + 2, text, i + m, least)
    ELSE IF m = 0 THEN 0
    ELSE star_end(find, k, text, i, least, m - 1)

\* The replacement is a template: "\\" gives a backslash, "\n" a newline, "\a"
\* the bell and "\b" the backspace; a backslash before a letter that names no
\* escape ("h" in the model), or at the end, is a re.error; before a character
\* that is no letter it is kept.
BEL == "BEL"

BS == "BS"

RECURSIVE expand_template(_)
expand_template(repl) ==
    IF repl = << >> THEN [raised |-> FALSE, text |-> << >>]
    ELSE IF Head(repl) # "\\"
    THEN LET r == expand_template(Tail(repl))
         IN [raised |-> r.raised, text |-> <<Head(repl)>> \o r.text]
    ELSE IF Len(repl) = 1 THEN [raised |-> TRUE, text |-> << >>]
    ELSE LET c == repl[2]
             r == expand_template(SubSeq(repl, 3, Len(repl)))
             out == IF c = "\\" THEN <<"\\">>
                    ELSE IF c = "n" THEN <<"\n">>
                    ELSE IF c = "a" THEN <<BEL>>
                    ELSE IF c = "b" THEN <<BS>>
                    ELSE <<"\\", c>>
         IN IF c = "h" THEN [raised |-> TRUE, text |-> << >>]
            ELSE [raised |-> r.raised, text |-> out \o r.text]

\* The end of the match at position i, or 0: right after an empty match
\* (advance) a match at the same position must not be empty.
match_end(find, text, i, advance) ==
    regex_end(find, 1, text, i, IF advance THEN i + 1 ELSE i)

\* piece, then the rest r of the result, with count more replacements.
Before(piece, r, count) == [text |-> piece \o r.text, n |-> r.n + count]

\* The scan of re.subn from position i: leftmost matches, none overlapping
\* another.
RECURSIVE subn_from(_, _, _, _, _)
subn_from(find, repl, text, i, advance) ==
    IF match_end(find, text, i, advance) # 0
    THEN Before(repl,
                subn_from(find, repl, text, match_end(find, text, i, advance),
                          match_end(find, text, i, advance) = i),
                1)
    ELSE IF i > Len(text) THEN [text |-> << >>, n |-> 0]
    ELSE Before(<<text[i]>>, subn_from(find, repl, text, i + 1, FALSE), 0)

\* re.subn(find, content, text, flags=re.S)
re_subn(find, content, text) ==
    LET t == expand_template(content)
    IN IF ~regex_compiles(find) \/ t.raised
       THEN [raised |-> TRUE, text |-> text, n |-> 0]
       ELSE LET r == subn_from(find, t.text, text, 1, FALSE)
            IN [raised |-> FALSE, text |-> r.text, n |-> r.n]

\* ------------------------------------------------------------ apply_change
\* A change is [action, path, content, find, regex]; a key the JSON object
\* lacks has the value .get() gives it: "" for action, the empty path, << >>
\* for content and find, FALSE for regex.
NoPath == [abs |-> FALSE, segs |-> << >>]

\* The outcome of apply_change on filesystem fs: the pair (ok, msg) it returns,
\* or raised with the exception as msg; n is the count of a regex patch; fs is
\* the filesystem afterwards and touched the paths it created or wrote.
Returned(ok, msg, n, fs, touched) ==
    [ok |-> ok, msg |-> msg, n |-> n, raised |-> FALSE, fs |-> fs, touched |-> touched]

Raised(msg, fs, touched) ==
    [ok |-> FALSE, msg |-> msg, n |-> 0, raised |-> TRUE, fs |-> fs, touched |-> touched]

\* if not action or not path
Incomplete(change) == change.action = "" \/ change.path = NoPath

\* The branch on action, from "if action == 'replace'" to the last else.
change_action(fs, change, target) ==
    LET content == change.content
    IN
    IF change.action = "replace"
    THEN LET w == write_text(fs, target, content)
         IN IF w.raised THEN Raised("IsADirectoryError", fs, {})
            ELSE Returned(TRUE, "[replace]", 0, w.fs, {target})
    ELSE IF change.action = "append"
    THEN LET prev == read_text(fs, target)
             w == write_text(fs, target, prev.text \o content)
         IN IF prev.raised \/ w.raised THEN Raised("IsADirectoryError", fs, {})
            ELSE Returned(TRUE, "[append]", 0, w.fs, {target})
    ELSE IF change.action = "patch_block"
    THEN IF change.find = << >>
         THEN Returned(FALSE, "patch_block sans 'find'.", 0, fs, {})
         ELSE LET rd == read_text(fs, target)
              IN
              IF rd.raised THEN Raised("IsADirectoryError", fs, {})
              ELSE IF change.regex
              THEN LET s == re_subn(change.find, content, rd.text)
                       w == write_text(fs, target, s.text)
                   IN IF s.raised THEN Returned(FALSE, "regex invalide", 0, fs, {})
                      ELSE IF s.n = 0
                      THEN Returned(FALSE, "rien trouve pour regex", 0, fs, {})
                      ELSE Returned(TRUE, "[patch_block/regex]", s.n, w.fs, {target})
              ELSE IF Occurrences(change.find, rd.text) = {}
                   THEN Returned(FALSE, "bloc 'find' introuvable", 0, fs, {})
                   ELSE LET w == write_text(fs, target,
                                            str_replace_1(rd.text, change.find, content))
                        IN Returned(TRUE, "[patch_block]", 0, w.fs, {target})
    ELSE Returned(FALSE, "action inconnue", 0, fs, {})

apply_change(fs, change) ==
    IF Incomplete(change)
    THEN Returned(FALSE, "change incomplet", 0, fs, {})
    ELSE LET g == safe_relpath(fs, change.path)
             m == mkdir(fs, Parent(g.p))
             r == change_action(m.fs, change, g.p)
         IN IF g.raised THEN Raised("Chemin hors workspace_root", fs, {})
            ELSE IF m.raised THEN Raised("FileExistsError", fs, {})
            ELSE [r EXCEPT !.touched = m.created \cup r.touched]

\* ----------------------------------------------------------- apply_changes
\* One line of logs: the prefix chosen from ok, and the message; the message
\* of a caught exception is "ERREUR: " and the exception.
LogLine(r) ==
    IF r.raised THEN [ok |-> FALSE, msg |-> "ERREUR", err |-> r.msg, n |-> 0]
    ELSE [ok |-> r.ok, msg |-> r.msg, err |-> "", n |-> r.n]

\* apply_changes(changes) from filesystem fs: the logs it returns, the
\* filesystem afterwards and every path it created or wrote.
RECURSIVE apply_changes(_, _)
apply_changes(fs, changes) ==
    IF changes = << >> THEN [logs |-> << >>, fs |-> fs, touched |-> {}]
    ELSE LET r == apply_change(fs, Head(changes))
             rest == apply_changes(r.fs, Tail(changes))
         IN [logs |-> <<LogLine(r)>> \o rest.logs,
             fs |-> rest.fs,
             touched |-> r.touched \cup rest.touched]

\* ------------------------------------------------------------- the inputs
Rel(segs) == [abs |-> FALSE, segs |-> segs]

Abs(segs) == [abs |-> TRUE, segs |-> segs]

Change(action, path, content) ==
    [action |-> action, path |-> path, content |-> content, find |-> << >>,
     regex |-> FALSE]

Patch(path, find, content, regex) ==
    [action |-> "patch_block", path |-> path, content |-> content, find |-> find,
     regex |-> regex]

\* The filesystems a run may start from: "/", the workspace root /w and a
\* directory /o outside it; then a file /w/f, or a directory /w/d holding a
\* file and a symlink /w/s to /o.
FsBare == (<< >> :> Dir) @@ (<<"w">> :> Dir) @@ (<<"o">> :> Dir)

FsFile == (<<"w", "f">> :> File(<<"a", "b", "a">>)) @@ FsBare

FsTree ==
    (<<"w", "d">> :> Dir) @@ (<<"w", "d", "f">> :> File(<<"a">>))
    @@ (<<"w", "s">> :> Link(<<"o">>)) @@ FsFile

\* ------------------------------------------------- parse_first_json_block
\* A reply is a sequence of tokens: the braces, "k" for a member with a
\* scalar value ("k": 1), "n" for a key and its colon, to be followed by an
\* object ("n": {...}), "x" for a character of prose, " " for whitespace.
Tokens == {"{", "}", "k", "n", "x", " "}

Texts == UNION {[1..n -> Tokens] : n \in 0..MaxText}

\* JSON ignores the whitespace between its tokens.
RECURSIVE without_ws(_)
without_ws(s) ==
    IF s = << >> THEN << >>
    ELSE IF Head(s) = " " THEN without_ws(Tail(s))
    ELSE <<Head(s)>> \o without_ws(Tail(s))

\* The objects of the token language: {}, {k}, {n Object}.
RECURSIVE is_object(_)
is_object(t) ==
    /\ Len(t) >= 2 /\ t[1] = "{" /\ t[Len(t)] = "}"
    /\ LET inner == SubSeq(t, 2, Len(t) - 1)
       IN \/ inner = << >>
          \/ inner = <<"k">>
          \/ (inner # << >> /\ inner[1] = "n" /\ is_object(Tail(inner)))

\* json.loads(s): the value (the object, free of whitespace), or an error.
json_loads(s) ==
    IF is_object(without_ws(s))
    THEN [raised |-> FALSE, value |-> without_ws(s)]
    ELSE [raised |-> TRUE, value |-> << >>]

\* re.findall(r"(\{.*\})", text, flags=re.S) from pos on: the leftmost "{"
\* that has a "}" after it, up to the last "}" of the text; then the search
\* goes on after that match.
RECURSIVE findall(_, _)
findall(text, pos) ==
    LET opens == {i \in pos..Len(text) :
                    text[i] = "{" /\ \E j \in (i + 1)..Len(text) : text[j] = "}"}
    IN IF opens = {} THEN << >>
       ELSE LET i == Min(opens)
                j == CHOOSE j \in (i + 1)..Len(text) :
                        text[j] = "}" /\ \A m \in (j + 1)..Len(text) : text[m] # "}"
            IN <<SubSeq(text, i, j)>> \o findall(text, j + 1)

\* for cand in candidates: return the first that json.loads accepts.
RECURSIVE first_loads(_)
first_loads(candidates) ==
    IF candidates = << >> THEN [raised |-> TRUE, value |-> << >>]
    ELSE IF ~json_loads(Head(candidates)).raised THEN json_loads(Head(candidates))
    ELSE first_loads(Tail(candidates))

RECURSIVE lstrip(_)
lstrip(s) == IF s # << >> /\ Head(s) = " " THEN lstrip(Tail(s)) ELSE s

RECURSIVE rstrip(_)
rstrip(s) ==
    IF s # << >> /\ s[Len(s)] = " " THEN rstrip(SubSeq(s, 1, Len(s) - 1)) ELSE s

\* text.strip()
strip(s) == rstrip(lstrip(s))

\* The dict, or the ValueError (of json.loads or "Reponse sans JSON valide").
parse_first_json_block(text) ==
    LET r == first_loads(findall(text, 1))
        text_stripped == strip(text)
    IN IF ~r.raised THEN r
       ELSE IF /\ text_stripped # << >>
               /\ Head(text_stripped) = "{"
               /\ text_stripped[Len(text_stripped)] = "}"
       THEN json_loads(text_stripped)
       ELSE [raised |-> TRUE, value |-> << >>]

\* The "score" of a JSON message: an integer, a string of digits, another
\* string, null, or no such key.
ScoreFields ==
    {[kind |-> "int", val |-> v] : v \in {0, 3, 5, 6}}
    \cup {[kind |-> "digits", val |-> 5], [kind |-> "text", val |-> 0],
          [kind |-> "null", val |-> 0], [kind |-> "missing", val |-> 0]}

\* The "changes" the collaborators of the model propose.
MainChanges ==
    { << >>,
      <<Change("replace", Rel(<<"notes.txt">>), <<"h">>)>>,
      <<Change("append", Rel(<<"f">>), <<"b">>),
        Change("replace", Rel(<<"..", "o", "x">>), <<"a">>)>> }

Messages == [score : ScoreFields, changes : MainChanges]

NoMessage == [score |-> [kind |-> "missing", val |-> 0], changes |-> << >>]

\* What the user types at input(), and end of file.
Answers == {"o", " O ", "n", "oui", "", "EOF"}

\* ans = input(...).strip().lower(), "n" on EOFError
strip_lower(typed) ==
    IF typed = "EOF" THEN "n"
    ELSE IF typed = " O " THEN "o"
    ELSE typed

\* ------------------------------------------------------------------- state
VARIABLES
    pc,             \* where main is: the call it waits on, or how it ended
    turn,
    claude_json, c_bound, c_score, c_changes,
    codex_json, d_bound, d_score, d_changes,
    candidate,
    fs,             \* the filesystem
    logs,           \* the logs of the last apply_changes
    \* what the run has done so far
    nClaude, nCodex,    \* calls of ask_claude and of ask_codex
    failed,             \* the collaborator whose message was not obtained
    failed_turn,
    asked,              \* input() was called
    ans,
    applied,            \* the lists handed to apply_changes, in order
    writes,             \* the paths created or written
    \* apply_changes, one statement at a time
    changes, ix, step, target, fs0,
    \* parse_first_json_block: the reply it is given and what it did
    reply, parsed

vars ==
    <<pc, turn, claude_json, c_bound, c_score, c_changes, codex_json, d_bound,
      d_score, d_changes, candidate, fs, logs, nClaude, nCodex, failed,
      failed_turn, asked, ans, applied, writes, changes, ix, step, target, fs0,
      reply, parsed>>

applyVars == <<changes, ix, step, target, fs0>>

parseVars == <<reply, parsed>>

NotParsed == [done |-> FALSE, raised |-> FALSE, value |-> << >>]

loopVars ==
    <<pc, turn, claude_json, c_bound, c_score, c_changes, codex_json, d_bound,
      d_score, d_changes, candidate, nClaude, nCodex, failed, failed_turn,
      asked, ans, applied>>

\* ------------------------------------------------------------------- main
\* int(x.get("score", 1))
int_score(field) ==
    IF field.kind = "missing" THEN [raised |-> FALSE, val |-> 1]
    ELSE IF field.kind \in {"text", "null"} THEN [raised |-> TRUE, val |-> 0]
    ELSE [raised |-> FALSE, val |-> field.val]

Init ==
    /\ pc = "ask_claude"
    /\ turn = 0
    /\ claude_json = NoMessage /\ c_bound = FALSE /\ c_score = 0 /\ c_changes = << >>
    /\ codex_json = NoMessage /\ d_bound = FALSE /\ d_score = 0 /\ d_changes = << >>
    /\ candidate = << >>
    /\ fs \in {FsBare, FsFile}
    /\ logs = << >>
    /\ nClaude = 0 /\ nCodex = 0
    /\ failed = "" /\ failed_turn = 0
    /\ asked = FALSE /\ ans = ""
    /\ applied = << >>
    /\ writes = {}
    /\ changes = << >> /\ ix = 1 /\ step = "idle" /\ target = << >>
    /\ fs0 = fs
    /\ reply = << >> /\ parsed = NotParsed

\* logs = apply_changes(list), inside main
Apply(list) ==
    LET r == apply_changes(fs, list)
    IN /\ fs' = r.fs
       /\ logs' = r.logs
       /\ writes' = writes \cup r.touched
       /\ applied' = Append(applied, list)

\* A mutant: the candidate is Claude's list whenever it has one.
Candidate_claude_first(dch, cch) == IF cch # << >> THEN cch ELSE dch

\* d_changes or c_changes; and the candidate after the loop.
Candidate(dch, cch) == IF dch # << >> THEN dch ELSE cch

\* After the loop, up to input() or the end: last_codex is still {}, so the
\* candidate is d_changes, or c_changes; a name never assigned is an
\* UnboundLocalError.
AfterLoop(dbound, dch, cch) ==
    IF ~dbound
    THEN pc' = "crashed" /\ candidate' = << >>
    ELSE /\ candidate' = Candidate(dch, cch)
         /\ pc' = IF candidate' # << >> THEN "ask_user" ELSE "nothing_proposed"

\* ask_claude raises: "Claude erreur", break.
ClaudeFails ==
    /\ pc = "ask_claude"
    /\ nClaude' = nClaude + 1
    /\ failed' = "claude" /\ failed_turn' = turn
    /\ AfterLoop(d_bound, d_changes, c_changes)
    /\ UNCHANGED <<turn, claude_json, c_bound, c_score, c_changes, codex_json,
                   d_bound, d_score, d_changes, fs, logs, nCodex, asked, ans,
                   applied, writes>>
    /\ UNCHANGED <<applyVars, parseVars>>

\* ask_claude returns a message; int() of its score may raise, uncaught.
ClaudeAnswers ==
    /\ pc = "ask_claude"
    /\ \E m \in Messages :
         /\ claude_json' = m
         /\ nClaude' = nClaude + 1
         /\ IF int_score(m.score).raised
            THEN /\ pc' = "crashed"
                 /\ failed' = "claude" /\ failed_turn' = turn
                 /\ UNCHANGED <<c_bound, c_score, c_changes>>
            ELSE /\ pc' = "ask_codex"
                 /\ c_bound' = TRUE
                 /\ c_score' = int_score(m.score).val
                 /\ c_changes' = m.changes
                 /\ UNCHANGED <<failed, failed_turn>>
    /\ UNCHANGED <<turn, codex_json, d_bound, d_score, d_changes, candidate, fs,
                   logs, nCodex, asked, ans, applied, writes>>
    /\ UNCHANGED <<applyVars, parseVars>>

\* ask_codex raises: "Codex erreur", break.
CodexFails ==
    /\ pc = "ask_codex"
    /\ nCodex' = nCodex + 1
    /\ failed' = "codex" /\ failed_turn' = turn
    /\ AfterLoop(d_bound, d_changes, c_changes)
    /\ UNCHANGED <<turn, claude_json, c_bound, c_score, c_changes, codex_json,
                   d_bound, d_score, d_changes, fs, logs, nClaude, asked, ans,
                   applied, writes>>
    /\ UNCHANGED <<applyVars, parseVars>>

\* The test of the double 5/5.
Double5_either(c, d) == APPLY_IMMEDIATELY_ON_DOUBLE_5 /\ (c = 5 \/ d = 5)

Double5(c, d) == APPLY_IMMEDIATELY_ON_DOUBLE_5 /\ c = 5 /\ d = 5

\* while turn < TURN_LIMIT
LoopGoesOn_inclusive(t) == t <= TURN_LIMIT

LoopGoesOn(t) == t < TURN_LIMIT

\* ask_codex returns a message: the double 5/5 applies and returns; otherwise
\* the turn is counted and the loop goes on or ends.
CodexAnswers ==
    /\ pc = "ask_codex"
    /\ \E m \in Messages :
         /\ codex_json' = m
         /\ nCodex' = nCodex + 1
         /\ IF int_score(m.score).raised
            THEN /\ pc' = "crashed"
                 /\ failed' = "codex" /\ failed_turn' = turn
                 /\ UNCHANGED <<d_bound, d_score, d_changes, turn, candidate, fs,
                                logs, applied, writes>>
            ELSE /\ d_bound' = TRUE
                 /\ d_score' = int_score(m.score).val
                 /\ d_changes' = m.changes
                 /\ UNCHANGED <<failed, failed_turn>>
                 /\ IF Double5(c_score, d_score')
                    THEN /\ Apply(Candidate(d_changes', c_changes))
                         /\ pc' = "committed"
                         /\ UNCHANGED <<turn, candidate>>
                    ELSE /\ turn' = turn + 1
                         /\ UNCHANGED <<fs, logs, applied, writes>>
                         /\ IF LoopGoesOn(turn')
                            THEN pc' = "ask_claude" /\ UNCHANGED candidate
                            ELSE AfterLoop(TRUE, d_changes', c_changes)
    /\ UNCHANGED <<claude_json, c_bound, c_score, c_changes, nClaude, asked, ans>>
    /\ UNCHANGED <<applyVars, parseVars>>

\* A mutant of the test: every answer but "n" applies.
Affirmative_not_n(a) == a # "n"

\* The test of the user's answer.
Affirmative(a) == a = "o"

\* input() returns, or raises EOFError: apply on "o", and nothing otherwise.
UserAnswers ==
    /\ pc = "ask_user"
    /\ \E typed \in Answers :
         /\ ans' = strip_lower(typed)
         /\ asked' = TRUE
         /\ IF Affirmative(ans')
            THEN Apply(candidate) /\ pc' = "applied_manual"
            ELSE pc' = "declined" /\ UNCHANGED <<fs, logs, applied, writes>>
    /\ UNCHANGED <<turn, claude_json, c_bound, c_score, c_changes, codex_json,
                   d_bound, d_score, d_changes, candidate, nClaude, nCodex,
                   failed, failed_turn>>
    /\ UNCHANGED <<applyVars, parseVars>>

Next == ClaudeFails \/ ClaudeAnswers \/ CodexFails \/ CodexAnswers \/ UserAnswers

Spec == Init /\ [][Next]_vars

\* Every call of a collaborator and input() return.
FairSpec == Spec /\ WF_vars(Next)

\* ------------------------------------------- apply_changes, step by step
\* The changes apply_changes is given when it is studied alone.
ApplyOps ==
    { Change("replace", Rel(<<"f">>), <<"b">>),
      Change("replace", Rel(<<"d", "f">>), <<"b">>),
      Change("replace", Rel(<<"..", "o", "x">>), <<"b">>),
      Change("replace", Abs(<<"o", "x">>), <<"b">>),
      Change("replace", Abs(<<"w", "f">>), <<"b">>),
      Change("replace", Rel(<<"d", "..", "..", "o", "x">>), <<"b">>),
      Change("replace", Rel(<<"s", "x">>), <<"b">>),
      Change("replace", Rel(<<".">>), <<"b">>),
      Change("replace", Rel(<<"d">>), <<"b">>),
      Change("replace", Rel(<<"f", "x">>), <<"b">>),
      Change("replace", NoPath, <<"b">>),
      Change("append", Rel(<<"f">>), <<"a">>),
      Change("append", Rel(<<"..", "o", "x">>), <<"a">>),
      Change("chmod", Rel(<<"d", "x">>), << >>),
      Change("chmod", Rel(<<"..", "o", "x">>), << >>),
      Change("", Rel(<<"..", "o", "x">>), <<"b">>),
      Patch(Rel(<<"f">>), <<"a">>, <<"b">>, FALSE),
      Patch(Rel(<<"f">>), <<"a">>, <<"b">>, TRUE),
      Patch(Rel(<<"f">>), <<"(">>, <<"b">>, TRUE),
      Patch(Rel(<<"f">>), << >>, <<"b">>, FALSE),
      Patch(Rel(<<"d", "f">>), <<"b">>, <<"a">>, FALSE),
      Patch(Rel(<<"..", "o", "x">>), <<"a">>, <<"b">>, FALSE),
      Patch(Rel(<<"f">>), <<"a">>, <<"\\", "n">>, TRUE),
      Patch(Rel(<<"n">>), <<"b">>, <<"a">>, TRUE),
      Patch(Rel(<<"n">>), <<"b", "*">>, <<"a">>, TRUE),
      Change("append", Rel(<<"n">>), <<"a">>),
      Change("append", Rel(<<"f", "x">>), <<"a">>),
      Change("append", Rel(<<"d">>), <<"a">>) }

ApplyBatches == UNION {[1..n -> ApplyOps] : n \in 0..MaxBatch}

InitApply ==
    /\ pc = "apply_changes"
    /\ turn = 0
    /\ claude_json = NoMessage /\ c_bound = FALSE /\ c_score = 0 /\ c_changes = << >>
    /\ codex_json = NoMessage /\ d_bound = FALSE /\ d_score = 0 /\ d_changes = << >>
    /\ candidate = << >>
    /\ nClaude = 0 /\ nCodex = 0
    /\ failed = "" /\ failed_turn = 0
    /\ asked = FALSE /\ ans = ""
    /\ applied = << >>
    /\ fs \in {FsBare, FsFile, FsTree}
    /\ fs0 = fs
    /\ changes \in ApplyBatches
    /\ ix = 1
    /\ step = IF changes = << >> THEN "return" ELSE "check"
    /\ target = << >>
    /\ logs = << >>
    /\ writes = {}
    /\ reply = << >> /\ parsed = NotParsed

\* logs.append(...) for the outcome r of changes[ix], and the next change.
Logged(r) ==
    /\ logs' = Append(logs, LogLine(r))
    /\ ix' = ix + 1
    /\ step' = IF ix = Len(changes) THEN "return" ELSE "check"
    /\ target' = << >>

\* if not action or not path: return False, ...
CheckChange ==
    /\ step = "check"
    /\ IF Incomplete(changes[ix])
       THEN Logged(Returned(FALSE, "change incomplet", 0, fs, {}))
       ELSE step' = "guard" /\ UNCHANGED <<logs, ix, target>>
    /\ UNCHANGED <<fs, writes, changes, fs0>>
    /\ UNCHANGED <<loopVars, parseVars>>

\* target = safe_relpath(path)
GuardChange ==
    /\ step = "guard"
    /\ LET g == safe_relpath(fs, changes[ix].path)
       IN IF g.raised
          THEN Logged(Raised("Chemin hors workspace_root", fs, {}))
          ELSE target' = g.p /\ step' = "mkdir" /\ UNCHANGED <<logs, ix>>
    /\ UNCHANGED <<fs, writes, changes, fs0>>
    /\ UNCHANGED <<loopVars, parseVars>>

\* target.parent.mkdir(parents=True, exist_ok=True)
MkdirChange ==
    /\ step = "mkdir"
    /\ LET m == mkdir(fs, Parent(target))
       IN IF m.raised
          THEN Logged(Raised("FileExistsError", fs, {})) /\ UNCHANGED <<fs, writes>>
          ELSE /\ fs' = m.fs
               /\ writes' = writes \cup m.created
               /\ step' = "act"
               /\ UNCHANGED <<logs, ix, target>>
    /\ UNCHANGED <<changes, fs0>>
    /\ UNCHANGED <<loopVars, parseVars>>

\* The branch on action.
ActChange ==
    /\ step = "act"
    /\ LET r == change_action(fs, changes[ix], target)
       IN /\ fs' = r.fs
          /\ writes' = writes \cup r.touched
          /\ Logged(r)
    /\ UNCHANGED <<changes, fs0>>
    /\ UNCHANGED <<loopVars, parseVars>>

NextApply == CheckChange \/ GuardChange \/ MkdirChange \/ ActChange

SpecApply == InitApply /\ [][NextApply]_vars

\* The statements of apply_changes, taken one at a time, do what the
\* operator apply_changes says.
StepsAgree ==
    (pc = "apply_changes" /\ step = "return") =>
        LET r == apply_changes(fs0, changes)
        IN r.fs = fs /\ r.logs = logs /\ r.touched = writes

\* ------------------------------------------ parse_first_json_block, alone
InitParse ==
    /\ pc = "parse"
    /\ turn = 0
    /\ claude_json = NoMessage /\ c_bound = FALSE /\ c_score = 0 /\ c_changes = << >>
    /\ codex_json = NoMessage /\ d_bound = FALSE /\ d_score = 0 /\ d_changes = << >>
    /\ candidate = << >>
    /\ nClaude = 0 /\ nCodex = 0
    /\ failed = "" /\ failed_turn = 0
    /\ asked = FALSE /\ ans = ""
    /\ applied = << >>
    /\ fs = FsBare /\ fs0 = fs
    /\ changes = << >> /\ ix = 1 /\ step = "idle" /\ target = << >>
    /\ logs = << >>
    /\ writes = {}
    /\ reply \in Texts
    /\ parsed = NotParsed

\* parse_first_json_block(text) returns a dict.
ParseReturns ==
    /\ pc = "parse"
    /\ ~parse_first_json_block(reply).raised
    /\ parsed' = [done |-> TRUE, raised |-> FALSE,
                  value |-> parse_first_json_block(reply).value]
    /\ pc' = "parse_returned"
    /\ UNCHANGED <<turn, claude_json, c_bound, c_score, c_changes, codex_json,
                   d_bound, d_score, d_changes, candidate, fs, logs, nClaude,
                   nCodex, failed, failed_turn, asked, ans, applied, writes,
                   reply>>
    /\ UNCHANGED applyVars

\* parse_first_json_block(text) raises.
ParseRaises ==
    /\ pc = "parse"
    /\ parse_first_json_block(reply).raised
    /\ parsed' = [done |-> TRUE, raised |-> TRUE, value |-> << >>]
    /\ pc' = "parse_raised"
    /\ UNCHANGED <<turn, claude_json, c_bound, c_score, c_changes, codex_json,
                   d_bound, d_score, d_changes, candidate, fs, logs, nClaude,
                   nCodex, failed, failed_turn, asked, ans, applied, writes,
                   reply>>
    /\ UNCHANGED applyVars

NextParse == ParseReturns \/ ParseRaises

SpecParse == InitParse /\ [][NextParse]_vars

\* ------------------------------------------------------------- properties
Terminated ==
    pc \in {"committed", "applied_manual", "declined", "nothing_proposed", "crashed"}

\* Both messages of the latest turn were obtained: c_score and d_score are
\* the two scores of one turn.
TurnComplete == failed = "" /\ d_bound /\ nClaude = nCodex

Outside(path_str) == ~IsPrefix(WORKSPACE_ROOT, Resolve(fs, Join(WORKSPACE_ROOT, path_str)))

\* C1: nothing is applied to the filesystem unless the two scores of one turn
\* are both 5, or the user answered "o" at the manual confirmation; in every
\* other state the run has written nothing and the filesystem is as it began.
C1_WriteOnlyOnDouble5OrConfirm ==
    LET double5 == pc = "committed" /\ TurnComplete /\ c_score = 5 /\ d_score = 5
        confirmed == pc = "applied_manual" /\ asked /\ ans = "o"
    IN ~(double5 \/ confirmed) => writes = {} /\ applied = << >> /\ fs = fs0

C1_Witness == pc = "applied_manual" /\ writes # {} /\ fs # fs0 /\ d_score # 5

\* C2: once a message of Claude or Codex could not be obtained or parsed, no
\* collaborator is called again, the manual confirmation is not offered and
\* nothing is applied.
C2_AbortOnFailure ==
    failed # "" =>
        /\ nClaude = failed_turn + 1
        /\ nCodex = IF failed = "codex" THEN failed_turn + 1 ELSE failed_turn
        /\ pc # "ask_user" /\ ~asked
        /\ writes = {} /\ applied = << >>

\* C3: whatever the paths of the changes, every path apply_changes creates or
\* writes resolves to the workspace root or below it, and the filesystem
\* changes only in a change whose path has passed safe_relpath.
C3_WritesUnderRoot ==
    /\ [](\A p \in writes : IsPrefix(WORKSPACE_ROOT, Resolve(fs, p)))
    /\ [](\A p \in DOMAIN fs : p \notin DOMAIN fs0 \/ fs[p] # fs0[p]
                                  => IsPrefix(WORKSPACE_ROOT, Resolve(fs, p)))
    /\ [][fs' # fs => /\ step \in {"mkdir", "act"}
                      /\ ~Outside(changes[ix].path)
                      /\ target = Resolve(fs, Join(WORKSPACE_ROOT, changes[ix].path))]_vars

C3_Witness ==
    /\ step = "return" /\ writes # {}
    /\ \E i \in 1..Len(changes) :
         /\ changes[i].path \in {Rel(<<"s", "x">>), Rel(<<"d", "..", "..", "o", "x">>)}
         /\ fs0 = FsTree
         /\ logs[i].err = "Chemin hors workspace_root"

\* C4: a change whose path resolves outside the workspace root ends as a
\* failure line, the one of the path guard when the change has an action, and
\* no step of it alters the filesystem.
C4_EscapeFailsAndWritesNothing ==
    [][(step \in {"check", "guard", "mkdir", "act"} /\ Outside(changes[ix].path)) =>
          /\ fs' = fs /\ writes' = writes
          /\ step' \notin {"mkdir", "act"}
          /\ ix' = ix + 1 =>
               /\ ~logs'[ix].ok
               /\ changes[ix].action # "" =>
                    logs'[ix].msg = "ERREUR"
                    /\ logs'[ix].err = "Chemin hors workspace_root"]_vars

C4_Witness ==
    \E i \in 1..Len(logs) :
        /\ changes[i].path = Abs(<<"o", "x">>)
        /\ logs[i].err = "Chemin hors workspace_root"
        /\ fs = fs0

\* C5: apply_change never raises: every outcome is a returned pair.
C5_NeverRaises == \A i \in 1..Len(logs) : logs[i].msg # "ERREUR"

\* C6: in the first turn whose two scores are both 5 the run is committed
\* after turn + 1 calls of each collaborator; what is applied is Codex's list
\* when it is not empty and Claude's list of that turn otherwise; nothing
\* follows: no call, no manual confirmation.
C6_CommitOnDouble5 ==
    (TurnComplete /\ c_score = 5 /\ d_score = 5) =>
        LET list == IF d_changes # << >> THEN d_changes ELSE c_changes
        IN /\ pc = "committed"
           /\ nClaude = turn + 1 /\ nCodex = turn + 1
           /\ applied = <<list>>
           /\ fs = apply_changes(fs0, list).fs
           /\ ~asked
           /\ ~ENABLED Next

C6_Witness ==
    /\ pc = "committed" /\ turn = 2
    /\ d_changes = << >> /\ c_changes # << >> /\ fs # fs0

C8_Terminates ==
    /\ <>Terminated
    /\ [](nClaude <= TURN_LIMIT /\ nCodex <= nClaude /\ turn <= TURN_LIMIT)

C8_Witness == pc = "nothing_proposed" /\ nClaude = TURN_LIMIT /\ failed = ""

\* C9: every message the loop accepts carries a score that is an integer in
\* 1..5; a score that is missing, not a number or out of 1..5 is never
\* accepted.
C9_AcceptedScoresInRange ==
    /\ c_bound => claude_json.score.kind \in {"int", "digits"} /\ c_score \in 1..5
    /\ d_bound => codex_json.score.kind \in {"int", "digits"} /\ d_score \in 1..5

\* The list of changes without its i-th element.
Without(list, i) == SubSeq(list, 1, i - 1) \o SubSeq(list, i + 1, Len(list))

\* C10: apply_changes returns one line per change, in order, and the line of
\* every change after a failed one is what it would be had the failed change
\* not been in the list.
C10_FailureDoesNotAffectLater ==
    step = "return" =>
        /\ Len(logs) = Len(changes)
        /\ \A i \in 1..Len(changes) :
             ~logs[i].ok =>
                 LET r == apply_changes(fs0, Without(changes, i))
                 IN \A j \in (i + 1)..Len(changes) : logs[j] = r.logs[j - 1]

\* The change apply_changes is at, the path its path resolves to, and the text
\* of a file (the empty text when there is no such file).
Cur == changes[ix]

CurTarget == Resolve(fs, Join(WORKSPACE_ROOT, Cur.path))

TextAt(f, p) == IF Exists(f, p) /\ f[p].kind = "file" THEN f[p].data ELSE << >>

\* The step taken ends the current change: its line is logs'[ix].
Ends == step \in {"check", "guard", "mkdir", "act"} /\ ix' = ix + 1

\* Every path but p is in f2 what it is in f1.
SameBut(f1, f2, p) ==
    /\ DOMAIN f2 \ {p} = DOMAIN f1 \ {p}
    /\ \A q \in DOMAIN f1 \ {p} : f2[q] = f1[q]

\* No directory above p is missing behind a file: the parents of p exist or
\* can be created.
ParentsOK(f, p) ==
    \A k \in 0..(Len(p) - 1) : Exists(f, SubSeq(p, 1, k)) => IsDir(f, SubSeq(p, 1, k))

\* C14: a patch_block without regex replaces the leftmost occurrence of find
\* by content and leaves every later occurrence, and all other text and every
\* other file, as they were; when find does not occur it fails as not found
\* and the filesystem is unchanged.
C14_LiteralPatchFirstOnly ==
    [][(step = "act" /\ Cur.action = "patch_block" /\ ~Cur.regex
        /\ Cur.find # << >> /\ ~IsDir(fs, target)) =>
          LET text == TextAt(fs, target)
              occ == Occurrences(Cur.find, text)
          IN IF occ # {}
             THEN /\ \E i \in occ :
                       /\ \A j \in occ : i <= j
                       /\ fs'[target] =
                            File(SubSeq(text, 1, i - 1) \o Cur.content
                                 \o SubSeq(text, i + Len(Cur.find), Len(text)))
                  /\ SameBut(fs, fs', target)
                  /\ logs'[ix].ok /\ logs'[ix].msg = "[patch_block]"
             ELSE /\ fs' = fs
                  /\ ~logs'[ix].ok /\ logs'[ix].msg = "bloc 'find' introuvable"]_vars

C14_Witness ==
    /\ step = "return" /\ fs0 = FsFile
    /\ changes = <<Patch(Rel(<<"f">>), <<"a">>, <<"b">>, FALSE)>>
    /\ fs[<<"w", "f">>] = File(<<"b", "b", "a">>)
    /\ logs[1].ok

\* C15: a patch_block with regex whose pattern compiles replaces every match
\* of find by content and reports their number; with no match it fails and
\* the file is not written.
C15_RegexPatchAllByContent ==
    [][(step = "act" /\ Cur.action = "patch_block" /\ Cur.regex
        /\ Cur.find # << >> /\ regex_compiles(Cur.find) /\ ~IsDir(fs, target)) =>
          LET r == subn_from(Cur.find, Cur.content, TextAt(fs, target), 1, FALSE)
          IN IF r.n > 0
             THEN /\ fs'[target] = File(r.text)
                  /\ logs'[ix].ok /\ logs'[ix].n = r.n
             ELSE /\ fs' = fs
                  /\ ~logs'[ix].ok /\ logs'[ix].msg = "rien trouve pour regex"]_vars

\* C16 as stated: after a replace whose path is inside the root, the target
\* holds exactly content, whatever was there before.
C16_ReplaceAlwaysWrites ==
    [][(Ends /\ Cur.action = "replace" /\ Cur.path # NoPath /\ ~Outside(Cur.path)) =>
          (Exists(fs', CurTarget) /\ fs'[CurTarget] = File(Cur.content))]_vars

\* C16, amended: after a replace whose path is inside the root, whose target
\* is not an existing directory and whose parent directories exist or can be
\* created, the target holds exactly content, whether or not it or its
\* parents existed before; otherwise the replace fails and writes nothing.
C16_ReplaceWritesContent ==
    [][(Ends /\ Cur.action = "replace" /\ Cur.path # NoPath /\ ~Outside(Cur.path)) =>
          IF ~IsDir(fs, CurTarget) /\ ParentsOK(fs, CurTarget)
          THEN /\ Exists(fs', CurTarget) /\ fs'[CurTarget] = File(Cur.content)
               /\ logs'[ix].ok /\ logs'[ix].msg = "[replace]"
          ELSE fs' = fs /\ ~logs'[ix].ok /\ logs'[ix].msg = "ERREUR"]_vars

C16_Witness ==
    /\ step = "return" /\ fs0 = FsFile
    /\ changes = <<Change("replace", Rel(<<"f">>), <<"b">>),
                   Change("replace", Rel(<<"d", "f">>), <<"b">>)>>
    /\ fs[<<"w", "f">>] = File(<<"b">>)
    /\ fs[<<"w", "d", "f">>] = File(<<"b">>)

\* C17 as stated: after an append to a file with text P, or to a path where no
\* file is (P empty), the file holds P followed by content.
C17_AppendAlwaysConcatenates ==
    [][(Ends /\ Cur.action = "append" /\ Cur.path # NoPath /\ ~Outside(Cur.path)
        /\ ~IsDir(fs, CurTarget)) =>
          (Exists(fs', CurTarget)
           /\ fs'[CurTarget] = File(TextAt(fs, CurTarget) \o Cur.content))]_vars

\* C17, amended: the same when the parent directories of the target exist or
\* can be created; when a file stands in their way the append fails and
\* writes nothing.
C17_AppendConcatenates ==
    [][(Ends /\ Cur.action = "append" /\ Cur.path # NoPath /\ ~Outside(Cur.path)
        /\ ~IsDir(fs, CurTarget)) =>
          IF ParentsOK(fs, CurTarget)
          THEN /\ Exists(fs', CurTarget)
               /\ fs'[CurTarget] = File(TextAt(fs, CurTarget) \o Cur.content)
               /\ logs'[ix].ok /\ logs'[ix].msg = "[append]"
          ELSE fs' = fs /\ ~logs'[ix].ok /\ logs'[ix].msg = "ERREUR"]_vars

C17_Witness ==
    /\ step = "return" /\ fs0 = FsFile
    /\ changes = <<Change("append", Rel(<<"f">>), <<"a">>),
                   Change("append", Rel(<<"n">>), <<"a">>)>>
    /\ fs[<<"w", "f">>] = File(<<"a", "b", "a", "a">>)
    /\ fs[<<"w", "n">>] = File(<<"a">>)

\* C19: a patch_block with a find, on a target that does not exist, fails and
\* does not create the target.
C19_PatchOfMissingFileFails ==
    [][(Ends /\ Cur.action = "patch_block" /\ Cur.find # << >>
        /\ ~Exists(fs, CurTarget)) =>
          (~logs'[ix].ok /\ ~Exists(fs', CurTarget))]_vars

\* C20: a change whose line is a failure leaves the filesystem as it was
\* before that change.
C20_FailureLeavesFilesystem ==
    \A i \in 1..Len(logs) :
        LET before == apply_changes(fs0, SubSeq(changes, 1, i - 1)).fs
            after == apply_changes(fs0, SubSeq(changes, 1, i)).fs
        IN (pc = "apply_changes" /\ ~logs[i].ok) => after = before

\* C11: the Reviewer is asked only when the Proposer's message of the same
\* turn has been obtained and parsed, the double 5/5 is evaluated only on a
\* turn with both messages, and changes that were applied come from a turn
\* whose two messages were both obtained and evaluated: the Reviewer's list
\* of the last complete turn, or the Proposer's list of a turn the Reviewer
\* answered.
C11_StrictlySequential ==
    /\ pc = "ask_claude" => nClaude = nCodex
    /\ pc = "ask_codex" => (c_bound /\ nClaude = nCodex + 1 /\ failed = "")
    /\ pc = "committed" => (d_bound /\ nClaude = nCodex /\ failed = "")
    /\ applied # << >> =>
         /\ Len(applied) = 1
         /\ d_bound
         /\ \/ d_changes # << >> /\ applied[1] = d_changes
            \/ failed # "codex" /\ applied[1] = c_changes

\* C12: when the loop ends because TURN_LIMIT turns were played, the candidate
\* is the Reviewer's list of the last turn when it is not empty and the
\* Proposer's list of that turn otherwise; it is applied only on an
\* affirmative answer, and when both lists are empty nothing is asked and
\* nothing is applied.
C12_ExhaustedCandidate ==
    (failed = "" /\ turn = TURN_LIMIT) =>
        /\ nClaude = TURN_LIMIT /\ nCodex = TURN_LIMIT
        /\ c_changes = claude_json.changes /\ d_changes = codex_json.changes
        /\ candidate = (IF d_changes # << >> THEN d_changes ELSE c_changes)
        /\ (d_changes = << >> /\ c_changes = << >>) =>
               (pc = "nothing_proposed" /\ ~asked /\ applied = << >> /\ fs = fs0)
        /\ candidate # << >> => pc \in {"ask_user", "applied_manual", "declined"}
        /\ pc = "ask_user" => (~asked /\ applied = << >> /\ fs = fs0)
        /\ pc = "applied_manual" => (asked /\ ans = "o" /\ applied = <<candidate>>)
        /\ pc = "declined" => (asked /\ ans # "o" /\ applied = << >> /\ fs = fs0)

C12_Witness ==
    /\ pc = "applied_manual" /\ failed = "" /\ turn = TURN_LIMIT
    /\ d_changes = << >> /\ c_changes # << >>
    /\ applied = <<c_changes>> /\ fs # fs0

\* C18: the number of collaborator messages obtained, the Proposer's and the
\* Reviewer's together, never exceeds TURN_LIMIT. While no call has failed
\* every call made has returned a message, so the messages obtained are the
\* calls made.
C18_MessagesWithinTurnLimit ==
    failed = "" => nClaude + nCodex <= TURN_LIMIT

\* The "}" that closes the "{" before position j at the given depth, or 0.
RECURSIVE close_from(_, _, _)
close_from(text, j, depth) ==
    IF j > Len(text) THEN 0
    ELSE IF text[j] = "{" THEN close_from(text, j + 1, depth + 1)
    ELSE IF text[j] = "}"
    THEN (IF depth = 1 THEN j ELSE close_from(text, j + 1, depth - 1))
    ELSE close_from(text, j + 1, depth)

\* The balanced span that begins at the "{" at i.
SpanAt(text, i) == SubSeq(text, i, close_from(text, i + 1, 1))

\* Where the balanced spans that decode begin.
DecodingSpans(text) ==
    {i \in 1..Len(text) :
        /\ text[i] = "{"
        /\ close_from(text, i + 1, 1) # 0
        /\ ~json_loads(SpanAt(text, i)).raised}

\* C13: when the reply holds a balanced span in braces that decodes, whatever
\* prose or other braces stand before or after it, the parser returns the
\* first such span, decoded; it fails only when no span decodes and the
\* trimmed reply does not decode either.
C13_FirstDecodingSpan ==
    parsed.done =>
        /\ DecodingSpans(reply) # {} =>
             /\ ~parsed.raised
             /\ parsed.value = json_loads(SpanAt(reply, Min(DecodingSpans(reply)))).value
        /\ parsed.raised =>
             (DecodingSpans(reply) = {} /\ json_loads(strip(reply)).raised)

====
